---- MODULE Spec2Model ----
(***************************************************************************)
(* Asteroid Browser (src/comet.py): a Streamlit script that is re-executed *)
(* top to bottom on every UI event.  One run reads the theme toggle, the   *)
(* query box and the Search button, calls tavily_search when the button    *)
(* was pressed on a non-empty query, and renders the three tabs from the   *)
(* value tavily_search returned.                                           *)
(*                                                                         *)
(* Python and JSON values are tagged records [t, v]; a key that a dict     *)
(* does not hold is the value Absent.  Strings are sequences of            *)
(* characters, so that strip and slicing are computed, not assumed.        *)
(***************************************************************************)
EXTENDS Naturals, Sequences, FiniteSets, TLC

VARIABLES key, dark, query, search_btn, event, provider, max_results,
          data, outcome, errorShown, sent, crashed, tab1, tab2, tab3

vars == <<key, dark, query, search_btn, event, provider, max_results,
          data, outcome, errorShown, sent, crashed, tab1, tab2, tab3>>

(***************************** bounds **************************************)
MaxStrLen == 3

MaxResults == 2

(************************ Python / JSON values *****************************)
Absent == [t |-> "absent", v |-> <<>>]

Null == [t |-> "null", v |-> <<>>]

Bool(b) == [t |-> "bool", v |-> b]

Num(n) == [t |-> "num", v |-> n]

Str(s) == [t |-> "str", v |-> s]

List(s) == [t |-> "list", v |-> s]

Obj(r) == [t |-> "obj", v |-> r]

\* Python truth value of x (`if x`, `not x`).
Truthy(x) ==
  CASE x.t = "absent" -> FALSE
    [] x.t = "null" -> FALSE
    [] x.t = "bool" -> x.v
    [] x.t = "num" -> x.v # 0
    [] x.t = "str" -> Len(x.v) > 0
    [] x.t = "list" -> Len(x.v) > 0
    [] x.t = "obj" -> \E k \in DOMAIN x.v : x.v[k].t # "absent"

\* dict.get(k, default) on the fields r of a dict.
Get(r, k, default) == IF r[k].t = "absent" THEN default ELSE r[k]

\* The characters str.strip() removes.
Whitespace == {" ", "\t", "\n", "\r"}

RECURSIVE lstrip(_)
lstrip(s) == IF Len(s) > 0 /\ Head(s) \in Whitespace THEN lstrip(Tail(s)) ELSE s

RECURSIVE rstrip(_)
rstrip(s) ==
  IF Len(s) > 0 /\ s[Len(s)] \in Whitespace
  THEN rstrip(SubSeq(s, 1, Len(s) - 1))
  ELSE s

\* A trim that forgets the right end.
stripLeftOnly(s) == lstrip(s)

\* A trim that removes at most one character at each end.
stripOnce(s) ==
  LET l == IF Len(s) > 0 /\ Head(s) \in Whitespace THEN Tail(s) ELSE s
  IN IF Len(l) > 0 /\ l[Len(l)] \in Whitespace THEN SubSeq(l, 1, Len(l) - 1) ELSE l

\* str.strip()
strip(s) == rstrip(lstrip(s))

\* s[:n]
Slice(s, n) == SubSeq(s, 1, IF Len(s) < n THEN Len(s) ELSE n)

(***************************** constants ***********************************)
TAVILY_URL == "https://api.tavily.com/search"

DefaultMaxResults == 5

RequestTimeout == 20

ContentPreview == 350

GridColumns == 3

Untitled == <<"U", "n", "t", "i", "t", "l", "e", "d">>

Ellipsis == <<".", ".", ".">>

(********************** provider behaviours (inputs) ***********************)
Chars == {" ", "a"}

SeqsUpTo(S, n) == UNION {[1..k -> S] : k \in 0..n}

AnswerVals ==
  {Absent, Null, Num(7), Bool(TRUE), List(<<>>), Obj([x |-> Null])}
    \cup {Str(s) : s \in SeqsUpTo(Chars, MaxStrLen)}

\* published_date strings, as the tokens the date format splits them into:
\* "<%a, %d %b %Y> <%H> <:%M:%S> <%Z>".
DateGood == <<"Mon, 01 Jan 2024 ", "13", ":05:09 ", "GMT">>

DateBad == <<"2", "0", "2", "4">>

ItemFull ==
  Obj([title |-> Str(<<"T">>), url |-> Str(<<"u">>), content |-> Str(<<"c">>),
       published_date |-> Str(DateGood)])

ItemPartial ==
  Obj([title |-> Absent, url |-> Absent, content |-> Absent,
       published_date |-> Str(DateBad)])

ItemBadContent ==
  Obj([title |-> Null, url |-> Num(7), content |-> Num(7),
       published_date |-> Num(7)])

ItemString == Str(<<"x">>)

ItemVals == {ItemFull, ItemPartial, ItemBadContent, ItemString}

ResultsVals ==
  {Absent, Null, Str(<<"n", "o">>)}
    \cup {List(s) : s \in SeqsUpTo(ItemVals, MaxResults)}

ImgUrl == Str(<<"i">>)

ImgRich ==
  Obj([url |-> Str(<<"i">>), source_url |-> Str(<<"s">>), caption |-> Str(<<"c">>)])

ImgBare == Obj([url |-> Str(<<"j">>), source_url |-> Absent, caption |-> Absent])

ImgNoUrl == Obj([url |-> Absent, source_url |-> Str(<<"s">>), caption |-> Absent])

ImgNumber == Num(7)

ImagesVals ==
  {Absent, Str(<<"n", "o">>), List(<<>>), List(<<ImgUrl>>), List(<<ImgNumber>>),
   List(<<ImgRich, ImgNoUrl>>), List(<<ImgUrl, ImgNumber, ImgBare, ImgRich>>)}

Bodies == [answer : AnswerVals, results : ResultsVals, images : ImagesVals]

EmptyBody == [answer |-> Absent, results |-> Absent, images |-> Absent]

\* What requests.post / raise_for_status / response.json() can meet.
FailureKinds == {"conn_error", "timeout", "http_500"}

NonObjectKinds == {"json_list", "json_string", "json_number", "json_null"}

Providers ==
  {[kind |-> k, body |-> EmptyBody] :
      k \in FailureKinds \cup NonObjectKinds \cup {"non_json"}}
    \cup {[kind |-> "json_object", body |-> b] : b \in Bodies}

NoProvider == [kind |-> "none", body |-> EmptyBody]

\* Build-dependent library behaviour: whether response.json() reports a body
\* that is not JSON as a RequestException (requests >= 2.27) or as a plain
\* ValueError, and whether st.image(None) raises.
Libs == [json_error_is_request_exception : BOOLEAN, image_none_raises : BOOLEAN]

Keys == {Null, Str(<<>>), Str(<<"k">>)}

Queries == {<<>>, <<" ">>, <<" ", "a", " ">>}

MaxResultsArgs == {1, DefaultMaxResults}

(***************************** tavily_search *******************************)
\* `if not TAVILY_API_KEY` without the emptiness test.
KeyUnsetOnly(k) == k.t = "null"

\* `if not TAVILY_API_KEY`
KeyMissing(k) == ~Truthy(k)

\* The JSON body of the request.
Payload(k, q, mr) ==
  [api_key |-> k, query |-> strip(q), include_answer |-> TRUE,
   include_images |-> TRUE, include_raw_content |-> FALSE, max_results |-> mr]

\* requests.post(TAVILY_URL, json=payload, timeout=20)
Request(k, q, mr) ==
  [url |-> TAVILY_URL, json |-> Payload(k, q, mr), timeout |-> RequestTimeout]

NormalizeAnswer(a) == IF a.t = "str" THEN Str(strip(a.v)) ELSE Str(<<>>)

NormalizeList(x) == IF x.t = "list" THEN x ELSE List(<<>>)

\* The "SAFE normalization" of a decoded JSON object.
normalize(body) ==
  [answer |-> NormalizeAnswer(body.answer),
   results |-> NormalizeList(body.results),
   images |-> NormalizeList(body.images)]

NoError == [msg |-> "none", cause |-> "none"]

\* The failure return with the error text of the configuration failure.
ConfigFailureAsApiError ==
  [ret |-> Null, outcome |-> "config_error",
   error |-> [msg |-> "Tavily API Error", cause |-> "none"],
   sent |-> <<>>, provider |-> NoProvider]

\* st.error("TAVILY_API_KEY is missing"); return None
ConfigFailure ==
  [ret |-> Null, outcome |-> "config_error",
   error |-> [msg |-> "TAVILY_API_KEY is missing", cause |-> "none"],
   sent |-> <<>>, provider |-> NoProvider]

\* except RequestException as e: st.error(f"Tavily API Error: {e}"); return None
NetworkFailure(req, p) ==
  [ret |-> Null, outcome |-> "network_error",
   error |-> [msg |-> "Tavily API Error", cause |-> p.kind],
   sent |-> <<req>>, provider |-> p]

\* An exception that no handler of tavily_search catches.
Escapes(req, p) ==
  [ret |-> Null, outcome |-> "exception", error |-> NoError,
   sent |-> <<req>>, provider |-> p]

\* tavily_search(query, max_results) under credential k, when the provider
\* behaves as p and the libraries as lib.
tavily_search(k, q, mr, p, lib) ==
  IF KeyMissing(k) THEN ConfigFailure
  ELSE LET req == Request(k, q, mr)
       IN CASE p.kind \in FailureKinds -> NetworkFailure(req, p)
            [] p.kind = "non_json" ->
                 IF lib.json_error_is_request_exception
                 THEN NetworkFailure(req, p)
                 ELSE Escapes(req, p)
            \* data.get on a list, str, number or None: AttributeError
            [] p.kind \in NonObjectKinds -> Escapes(req, p)
            [] p.kind = "json_object" ->
                 [ret |-> Obj(normalize(p.body)), outcome |-> "ok",
                  error |-> NoError, sent |-> <<req>>, provider |-> p]

\* `else: data = None`
NotCalled ==
  [ret |-> Null, outcome |-> "not_called", error |-> NoError,
   sent |-> <<>>, provider |-> NoProvider]

(******************************* rendering *********************************)
NotRendered == [kind |-> "not_rendered", text |-> Absent, items |-> <<>>, crash |-> FALSE]

Info(msg) == [kind |-> "info", text |-> Str(<<msg>>), items |-> <<>>, crash |-> FALSE]

\* `if not data:` of the Results tab.
AnswerFallback(d) == ~Truthy(d)

\* Tab 1: the answer panel.
ResultsTab(d) ==
  IF AnswerFallback(d)
  THEN Info("Search for something to see the answer here.")
  ELSE LET answer == Get(d.v, "answer", Null)
           results == Get(d.v, "results", Null)
           useFirst == ~Truthy(answer) /\ Truthy(results)
       IN \* data["results"][0].get: AttributeError unless the entry is a dict
          IF useFirst /\ (results.t # "list" \/ results.v[1].t # "obj")
          THEN [kind |-> "answer", text |-> Absent, items |-> <<>>, crash |-> TRUE]
          ELSE LET answer_text ==
                     IF useFirst
                     THEN Get(results.v[1].v, "content", Str(<<>>))
                     ELSE answer
               IN IF Truthy(answer_text)
                  THEN [kind |-> "answer", text |-> answer_text,
                        items |-> <<>>, crash |-> FALSE]
                  ELSE [kind |-> "warning",
                        text |-> Str(<<"No consistent answer found for this query.">>),
                        items |-> <<>>, crash |-> FALSE]

\* datetime.strptime(s, "%a, %d %b %Y %H:%M:%S %Z") accepts s.
Parses(s) ==
  /\ s.t = "str"
  /\ Len(s.v) = 4
  /\ s.v[2] \in {"00", "09", "12", "13"}
  /\ s.v[4] \in {"GMT", "UTC"}

\* %I and %p of an hour %H.
Hour12(h) ==
  CASE h = "00" -> <<"12", "AM">>
    [] h = "09" -> <<"09", "AM">>
    [] h = "12" -> <<"12", "PM">>
    [] h = "13" -> <<"01", "PM">>

\* strptime followed by strftime("%a, %d %b %Y %I:%M:%S %p %Z"); the parsed
\* datetime is naive, so %Z prints nothing.  Any exception leaves the value.
Reformat(s) ==
  IF Parses(s)
  THEN Str(<<s.v[1], Hour12(s.v[2])[1], s.v[3], Hour12(s.v[2])[2], " ">>)
  ELSE s

\* One pass of the loop body of the Sources tab over a dict entry.
SourceEntry(item) ==
  LET title == Get(item.v, "title", Str(Untitled))
      url == Get(item.v, "url", Str(<<"#">>))
      content == Get(item.v, "content", Str(<<>>))
      published_date == Get(item.v, "published_date", Str(<<>>))
  IN [title |-> title, url |-> url, content |-> content,
      date |-> IF Truthy(published_date) THEN Reformat(published_date) ELSE Absent,
      preview |-> IF Truthy(content) /\ content.t = "str"
                  THEN Str(Slice(content.v, ContentPreview) \o Ellipsis)
                  ELSE Absent]

\* The loop body raises: item.get on a non-dict (AttributeError), or
\* content[:350] + "..." on a truthy content that is not a string (TypeError).
SourceRaises(item) ==
  \/ item.t # "obj"
  \/ LET content == Get(item.v, "content", Str(<<>>))
     IN Truthy(content) /\ content.t # "str"

\* `if not data or "results" not in data:` testing emptiness instead of presence.
SourcesFallbackOnEmpty(d) == ~Truthy(d) \/ ~Truthy(Get(d.v, "results", Null))

\* `if not data or "results" not in data:`
SourcesFallback(d) == ~Truthy(d) \/ d.v.results.t = "absent"

\* Tab 2: the source list; items are the entries written before a raise.
SourcesTab(d) ==
  IF SourcesFallback(d)
  THEN Info("No sources yet. Start a search first.")
  ELSE LET rs == d.v.results
           n == IF rs.t = "list" THEN Len(rs.v) ELSE 0
           bad == {i \in 1..n : SourceRaises(rs.v[i])}
           done == IF bad = {} THEN n
                   ELSE (CHOOSE i \in bad : \A j \in bad : i <= j) - 1
       IN [kind |-> "sources", text |-> Str(<<"Sources">>),
           items |-> [i \in 1..done |-> SourceEntry(rs.v[i])],
           crash |-> bad # {} \/ (rs.t # "list" /\ rs # Str(<<>>))]

\* What one image of the grid renders.
ImageEntry(img, i) ==
  CASE img.t = "str" ->
         [col |-> (i - 1) % GridColumns, image |-> img, link |-> Absent,
          caption |-> Absent]
    [] img.t = "obj" ->
         [col |-> (i - 1) % GridColumns, image |-> Get(img.v, "url", Null),
          link |-> IF Truthy(Get(img.v, "source_url", Null))
                   THEN img.v.source_url ELSE Absent,
          caption |-> IF Truthy(Get(img.v, "caption", Null))
                      THEN img.v.caption ELSE Absent]
    [] OTHER ->
         [col |-> (i - 1) % GridColumns, image |-> Absent, link |-> Absent,
          caption |-> Absent]

\* st.image(img.get("url")) on a dict that has no url.
ImageRaises(img, lib) ==
  img.t = "obj" /\ Get(img.v, "url", Null).t = "null" /\ lib.image_none_raises

\* `if not data or not data.get("images"):`
ImagesFallback(d) == ~Truthy(d) \/ ~Truthy(Get(d.v, "images", Null))

\* Tab 3: the image grid.
ImagesTab(d, lib) ==
  IF ImagesFallback(d)
  THEN Info("No images found for this query.")
  ELSE LET images == Get(d.v, "images", List(<<>>))
           n == IF images.t = "list" THEN Len(images.v) ELSE 0
           bad == {i \in 1..n : ImageRaises(images.v[i], lib)}
           done == IF bad = {} THEN n
                   ELSE (CHOOSE i \in bad : \A j \in bad : i <= j) - 1
       IN [kind |-> "images", text |-> Str(<<"Related Images">>),
           items |-> [i \in 1..done |-> ImageEntry(images.v[i], i)],
           crash |-> bad # {}]

\* One run of the script from the search box to the last tab.  An exception
\* ends the run: what follows it is not rendered.
Script(k, q, btn, p, lib) ==
  LET s == IF btn /\ Len(q) > 0
           THEN tavily_search(k, q, DefaultMaxResults, p, lib)
           ELSE NotCalled
      t1 == IF s.outcome = "exception" THEN NotRendered ELSE ResultsTab(s.ret)
      t2 == IF s.outcome = "exception" \/ t1.crash
            THEN NotRendered ELSE SourcesTab(s.ret)
      t3 == IF s.outcome = "exception" \/ t1.crash \/ t2.crash
            THEN NotRendered ELSE ImagesTab(s.ret, lib)
  IN [search |-> s, max_results |-> DefaultMaxResults,
      tab1 |-> t1, tab2 |-> t2, tab3 |-> t3,
      crashed |-> s.outcome = "exception" \/ t1.crash \/ t2.crash \/ t3.crash]

(***************************** the session *********************************)
\* The provider behaviours a session meets.
SessionBodies ==
  [answer : {Absent, Str(<<>>), Str(<<" ", "a">>)},
   results : {Absent, List(<<>>), List(<<ItemFull>>), List(<<ItemString>>),
              List(<<ItemPartial, ItemFull>>)},
   images : {Absent, List(<<ImgUrl>>), List(<<ImgNoUrl>>)}]

SessionProviders ==
  {[kind |-> k, body |-> EmptyBody] : k \in {"timeout", "http_500", "non_json", "json_list"}}
    \cup {[kind |-> "json_object", body |-> b] : b \in SessionBodies}

\* The state a run of the script leaves behind.
Ran(r, ev, q, btn, d) ==
  /\ dark' = d
  /\ query' = q
  /\ search_btn' = btn
  /\ event' = ev
  /\ provider' = r.search.provider
  /\ max_results' = r.max_results
  /\ data' = r.search.ret
  /\ outcome' = r.search.outcome
  /\ errorShown' = r.search.error
  /\ sent' = r.search.sent
  /\ crashed' = r.crashed
  /\ tab1' = r.tab1
  /\ tab2' = r.tab2
  /\ tab3' = r.tab3
  /\ UNCHANGED key

\* The page load: session_state.dark = True, empty query box, no button press.
Init ==
  /\ key \in Keys
  /\ dark = TRUE
  /\ query = <<>>
  /\ search_btn = FALSE
  /\ event = "load"
  /\ provider = NoProvider
  /\ max_results = DefaultMaxResults
  /\ data = NotCalled.ret
  /\ outcome = NotCalled.outcome
  /\ errorShown = NotCalled.error
  /\ sent = NotCalled.sent
  /\ crashed = FALSE
  /\ tab1 = ResultsTab(Null)
  /\ tab2 = SourcesTab(Null)
  /\ tab3 = ImagesTab(Null, [json_error_is_request_exception |-> TRUE,
                             image_none_raises |-> TRUE])

\* The user flips the theme toggle: a rerun without a button press.
ToggleTheme ==
  \E lib \in Libs :
    Ran(Script(key, query, FALSE, NoProvider, lib), "toggle", query, FALSE, ~dark)

\* The user commits another text in the query box: a rerun without a button press.
TypeQuery ==
  \E q \in Queries \ {query}, lib \in Libs :
    Ran(Script(key, q, FALSE, NoProvider, lib), "type", q, FALSE, dark)

\* The user presses Search: a rerun with search_btn = True.
ClickSearch ==
  \E p \in SessionProviders, lib \in Libs :
    Ran(Script(key, query, TRUE, p, lib), "click", query, TRUE, dark)

Next == ToggleTheme \/ TypeQuery \/ ClickSearch

Spec == Init /\ [][Next]_vars

(*********************** one call, one run, all inputs *********************)
\* tavily_search applied to every query, max_results and provider behaviour.
CallSearch ==
  /\ event = "load"
  /\ \E q \in Queries, mr \in MaxResultsArgs, p \in Providers,
        lib \in {l \in Libs : l.image_none_raises} :
       LET s == tavily_search(key, q, mr, p, lib)
       IN /\ query' = q
          /\ max_results' = mr
          /\ event' = "call"
          /\ provider' = s.provider
          /\ data' = s.ret
          /\ outcome' = s.outcome
          /\ errorShown' = s.error
          /\ sent' = s.sent
          /\ crashed' = (s.outcome = "exception")
  /\ UNCHANGED <<key, dark, search_btn, tab1, tab2, tab3>>

\* The script run on a button press, for every query and provider behaviour.
RunScript ==
  /\ event = "load"
  /\ \E q \in Queries, p \in Providers, lib \in Libs :
       Ran(Script(key, q, TRUE, p, lib), "script", q, TRUE, dark)

SearchNext == CallSearch \/ RunScript

SearchSpec == Init /\ [][SearchNext]_vars

(******************************* properties ********************************)
\* tavily_search was entered in the run that produced this state.
Invoked == event = "call" \/ (event \in {"script", "click"} /\ search_btn /\ Len(query) > 0)

\* A whole run of the script produced this state.
ScriptRan == event # "call"

KeyAbsent == key = Null \/ key = Str(<<>>)

\* C1: when TAVILY_API_KEY is unset or empty, every call of tavily_search,
\* whatever the query and max_results, returns None after showing the
\* missing-key error, and no HTTP request was issued.
C1_NoRequestWithoutCredential ==
  (Invoked /\ KeyAbsent) =>
    /\ sent = <<>>
    /\ data = Null
    /\ errorShown.msg = "TAVILY_API_KEY is missing"

C1_Witness ==
  /\ event = "call"
  /\ key = Str(<<>>)
  /\ max_results = 1
  /\ query = <<" ", "a", " ">>
  /\ sent = <<>>
  /\ data = Null

\* C2: no provider behaviour makes an exception leave tavily_search; every
\* call ends in a normalized result or in a failure value.
C2_NoFaultEscapes == Invoked => outcome # "exception"

\* r is s without its leading and trailing whitespace, stated without strip.
IsTrimOf(r, s) ==
  /\ Len(r) = 0 \/ (r[1] \notin Whitespace /\ r[Len(r)] \notin Whitespace)
  /\ \E i \in 0..Len(s) :
       /\ i + Len(r) <= Len(s)
       /\ SubSeq(s, i + 1, i + Len(r)) = r
       /\ \A k \in 1..Len(s) : (k <= i \/ k > i + Len(r)) => s[k] \in Whitespace

\* C3: the returned answer is a string: the provider's answer trimmed when
\* that is a string, the empty string in every other case.
C3_AnswerNormalized ==
  outcome = "ok" =>
    LET a == provider.body.answer
        r == data.v.answer
    IN /\ r.t = "str"
       /\ IF a.t = "str" THEN IsTrimOf(r.v, a.v) ELSE r.v = <<>>

C3_Witness ==
  /\ outcome = "ok"
  /\ provider.body.answer = Str(<<" ", "a", " ">>)
  /\ data.v.answer = Str(<<"a">>)

\* C4: sources is empty when the provider's results is absent or not an
\* array; otherwise it has the provider's entries in the provider's order, and
\* every entry is listed with a title, url and content, a missing one being
\* "Untitled", "#" and "".
C4_SourcesMirrorProvider ==
  (ScriptRan /\ outcome = "ok") =>
    LET r == provider.body.results
    IN IF r.t # "list"
       THEN data.v.results = List(<<>>)
       ELSE /\ data.v.results = r
            /\ tab2.kind = "sources"
            /\ Len(tab2.items) = Len(r.v)
            /\ \A i \in 1..Len(r.v) :
                 /\ tab2.items[i].title = Get(r.v[i].v, "title", Str(Untitled))
                 /\ tab2.items[i].url = Get(r.v[i].v, "url", Str(<<"#">>))
                 /\ tab2.items[i].content = Get(r.v[i].v, "content", Str(<<>>))

\* C5: the three tabs finish rendering for every result tavily_search returns.
C5_RenderNeverCrashes == (ScriptRan /\ outcome = "ok") => ~crashed

\* C6 as claimed: the value returned on a missing credential differs from the
\* value returned on a network failure.
C6_FailuresDistinguishable ==
  (Invoked /\ KeyAbsent) =>
    \A p \in Providers, lib \in Libs :
      p.kind \in FailureKinds =>
        tavily_search(Str(<<"k">>), query, max_results, p, lib).ret # data

\* C6 as amended: both failures return None; what tells them apart is the
\* error text tavily_search shows before it returns.
C6_FailuresDifferInMessageOnly ==
  /\ (Invoked /\ KeyAbsent) =>
       (data = Null /\ errorShown.msg = "TAVILY_API_KEY is missing")
  /\ (Len(sent) > 0 /\ provider.kind \in FailureKinds) =>
       (data = Null /\ errorShown.msg = "Tavily API Error"
          /\ errorShown.cause = provider.kind)

C6_Witness ==
  /\ Len(sent) > 0
  /\ provider.kind = "http_500"
  /\ data = Null
  /\ errorShown.msg = "Tavily API Error"

\* C7: the record tavily_search returns is a fixed point of the normalization.
C7_NormalizeIdempotent == outcome = "ok" => normalize(data.v) = data.v

C7_Witness ==
  /\ outcome = "ok"
  /\ provider.body.answer = Str(<<" ", " ", "a">>)
  /\ provider.body.results.t # "list"
  /\ provider.body.images.t # "list"
  /\ data.v # provider.body
  /\ normalize(data.v) = data.v

AnswerInfo == Info("Search for something to see the answer here.")

SourcesInfo == Info("No sources yet. Start a search first.")

ImagesInfo == Info("No images found for this query.")

\* C8 as claimed: each region shows its fallback text whenever the field it
\* renders is empty.
C8_FallbackWheneverEmpty ==
  (ScriptRan /\ ~crashed) =>
    /\ (data = Null \/ data.v.answer = Str(<<>>)) => tab1 = AnswerInfo
    /\ (data = Null \/ data.v.results = List(<<>>)) => tab2 = SourcesInfo
    /\ (data = Null \/ data.v.images = List(<<>>)) => tab3 = ImagesInfo

\* C8 as amended: the answer panel and the source list show their fallback
\* text exactly when the run holds no result; after a successful search with
\* no answer and no results the panel shows the "No consistent answer"
\* warning and the source list its heading with no entries.  The image grid
\* shows its fallback text exactly when no result is held or images is empty.
C8_FallbackTexts ==
  ScriptRan =>
    /\ tab1.kind # "not_rendered" => (tab1 = AnswerInfo <=> data = Null)
    /\ tab2.kind # "not_rendered" => (tab2 = SourcesInfo <=> data = Null)
    /\ tab3.kind # "not_rendered" =>
         (tab3 = ImagesInfo <=> (data = Null \/ data.v.images = List(<<>>)))
    /\ (outcome = "ok" /\ data.v.answer = Str(<<>>) /\ data.v.results = List(<<>>)) =>
         (tab1.kind = "warning" /\ tab2.kind = "sources" /\ tab2.items = <<>>)

C8_Witness ==
  /\ event = "script"
  /\ outcome = "ok"
  /\ data.v.answer = Str(<<>>)
  /\ data.v.results = List(<<>>)
  /\ data.v.images = List(<<>>)
  /\ tab1.kind = "warning"
  /\ tab2.kind = "sources"
  /\ tab3 = ImagesInfo

\* C9: the query of every request that is sent is non-empty and trimmed.
C9_SentQueryNonEmpty ==
  \A i \in 1..Len(sent) :
    /\ Len(sent[i].json.query) > 0
    /\ IsTrimOf(sent[i].json.query, sent[i].json.query)

\* C10: a run that is not a search keeps the result the last successful
\* search displayed.
C10_ResultKeptUntilNextSearch ==
  [][(outcome = "ok" /\ event' # "click") => data' = data]_vars

====
